---- MODULE Spec2Model ----
(***************************************************************************)
(* A model of ckit's memberlist-over-gRPC transport                        *)
(* (internal/memberlistgrpc/transport.go) together with the collaborators  *)
(* it drives: the bounded packet queue (internal/queue), the stream        *)
(* connection adapter (packetsClientConn) and the client pool (clientpool).*)
(*                                                                         *)
(* Packets are identified by the order in which they were handed to a      *)
(* queue: the k-th WriteTo call enqueues packet k on the outbound queue,   *)
(* the k-th accepted SendPacket RPC enqueues packet k on the inbound one.  *)
(***************************************************************************)
EXTENDS Integers, Sequences, FiniteSets, TLC

\* ------------------------------------------------------------------ bounds

\* queue.New(packetBufferSize): 1000 in the source, scaled down so that the
\* overflow path of the queue is exercised.
packetBufferSize == 2

\* How many packets are handed to each queue in one behaviour.
MaxPackets == 3

\* DialTimeout: the largest timeout (argument or Options.PacketTimeout), how
\* long one call is followed, and how many streams are opened.
MaxTimeout == 2
MaxClock == 3
MaxStreams == 2

\* One stream: the longest message, the largest Read buffer, how many bytes
\* the peer writes in all, how many messages the local side writes, and how
\* often each of the two closing goroutines calls Close.
MaxMsgLen == 2
MaxBuf == 2
MaxBytes == 4
MaxLocalWrites == 1
MaxCloseCalls == 2

Closers == {1, 2}

\* The pool: the peer addresses, the goroutines calling Get, and how many
\* dials are attempted in one behaviour.
Addrs == {"a1", "a2", "a3"}
Getters == {1, 2}
MaxDials == 3

\* The largest Options.MaxClients a pool is built with (0: unlimited).
MaxPoolClients == 2

\* The goroutines calling Transport.Shutdown; each calls it once, at any time
\* (before, while or after the other caller's call).
ShutdownCallers == {1, 2}

\* ------------------------------------------------------------------ state

VARIABLES
    inPacketQueue,      \* transport.inPacketQueue  (queue.Queue)
    outPacketQueue,     \* transport.outPacketQueue (queue.Queue)
    ctxDone,            \* the context handed to run has been cancelled
    exited,             \* transport.exited is closed
    closedMut,          \* holder of transport.closedMut (0: unlocked)
    wg,                 \* the counter of run's sync.WaitGroup
    runPc,              \* position of the run goroutine
    inPc, inPkt,        \* inbound worker: position, dequeued packet
    outPc, outPkt,      \* outbound worker: position, dequeued packet
    shutPc,             \* position of each Shutdown caller
    receiving,          \* the protocol still receives from PacketCh()
    inEnqueued,         \* number of packets SendPacket handed to the inbound queue
    outEnqueued,        \* number of packets WriteTo handed to the outbound queue
    delivered,          \* packets the protocol received from PacketCh(), in order
    sent,               \* packets for which the worker issued a SendPacket RPC
    writeErr,           \* error returned by the last WriteTo call
    rpcStatus,          \* status returned by the last SendPacket handler call
    packetRxTotal,      \* metrics.packetRxTotal
    packetTxTotal,      \* metrics.packetTxTotal
    packetTxFailedTotal,\* metrics.packetTxFailedTotal
    outCall,            \* for the packet the outbound worker holds: its Pool.Get calls, SendPacket calls and error
    openStreams,        \* metrics.openStreams
    PacketTimeout,      \* opts.PacketTimeout
    dialPc,             \* position of the DialTimeout call
    dialTimeout,        \* DialTimeout's timeout argument
    dialCtx,            \* the ctx DialTimeout built: has a deadline, and which
    dialClock,          \* time elapsed since DialTimeout was called
    dialResult,         \* what DialTimeout returned: "conn" or "err"
    dialConns,          \* the adapters DialTimeout has returned: "Open", "Closing" or "Closed"
    spPc,               \* position of the StreamPackets handler
    spStatus,           \* status the StreamPackets handler returned
    accepted,           \* the protocol has received the adapter from StreamCh()
    waitClosed,         \* StreamPackets' waitClosed channel is closed
    connState,          \* the adapter: "none", "Open", "Closing", "Closed"
    onCloseCalls,       \* how often the adapter's onClose callback ran
    stream,             \* messages the peer wrote, not yet received
    writtenBytes,       \* number of bytes the peer wrote (byte k is the k-th)
    readBuffer,         \* the adapter's pending-read buffer
    readPc, readN,      \* the Read call: position, size of its buffer
    readOut,            \* all bytes Read calls returned, in order
    readErr,            \* error of the last Read call
    localWrites,        \* messages the local side sent on the stream
    writeResult,        \* error of the last Write call
    closePc,            \* position of each Close caller
    closeCalls,         \* per caller: Close calls made
    poolEntries,        \* the pool's entries: records [addr, conn]
    poolDialed,         \* number of dials attempted; a new handle is its number
    poolConns,          \* per address: the handles dialed successfully
    getPc,              \* position of each Get call
    getAddr,            \* per Get caller: the address asked for
    getConn,            \* per Get caller: the connection it dialed
    getResult,          \* per Get caller: the handle returned (0: none)
    getErr,             \* per Get caller: the error returned
    poolReturned,       \* per address: the handles Get calls have returned
    poolOverlapped,     \* per address: two Gets that dial have been in flight at once
    poolOpts,           \* the pool's Options: MaxClients, CleanupLRU
    poolLru,            \* the addresses of the entries, least recently used first
    poolRefs,           \* per handle: the reference count of its entry
    poolClosed,         \* per handle: who closed it ("evict", "gc"), in order
    getEvicted,         \* per Get caller: its lookup evicted an entry of a pool exactly at its maximum
    getOverlap,         \* per Get caller: another Get that dials was in flight with it
    localAddr,          \* transport.localAddr: the TCP address (IP bytes, Port), or NilAddr
    advIp,              \* the ip argument of the last FinalAdvertiseAddr call, as characters
    advPort,            \* the port argument of the last FinalAdvertiseAddr call
    advRetIP,           \* the net.IP it returned (its bytes; <<>> is nil)
    advRetPort,         \* the port it returned
    advErr              \* the error it returned ("nil": none; "none": no call yet)

transportVars ==
    <<inPacketQueue, outPacketQueue, ctxDone, exited, closedMut, wg, runPc,
      inPc, inPkt, outPc, outPkt, shutPc, receiving,
      inEnqueued, outEnqueued, delivered, sent, writeErr, rpcStatus,
      packetRxTotal, packetTxTotal, packetTxFailedTotal, outCall>>

dialVars ==
    <<PacketTimeout, dialPc, dialTimeout, dialCtx, dialClock, dialResult,
      dialConns>>

connVars ==
    <<spPc, spStatus, accepted, waitClosed, connState, onCloseCalls, stream,
      writtenBytes, readBuffer, readPc, readN, readOut, readErr, localWrites,
      writeResult, closePc, closeCalls>>

poolVars ==
    <<poolEntries, poolDialed, poolConns, getPc, getAddr, getConn, getResult,
      getErr, poolReturned, poolOverlapped, poolOpts, poolLru, poolRefs,
      poolClosed, getEvicted, getOverlap>>

addrVars == <<localAddr, advIp, advPort, advRetIP, advRetPort, advErr>>

vars == <<transportVars, openStreams, dialVars, connVars, poolVars, addrVars>>

\* What the steps of one component leave alone.
notTransport == <<openStreams, dialVars, connVars, poolVars, addrVars>>
notDial == <<transportVars, connVars, poolVars, addrVars>>
notConn == <<transportVars, dialVars, poolVars, addrVars>>
notPool == <<transportVars, openStreams, dialVars, connVars, addrVars>>
notAddr == <<transportVars, openStreams, dialVars, connVars, poolVars>>

\* ------------------------------------------------------------------ queue

\* queue.New(limit): an empty, open queue holding at most limit items.
QueueNew(limit) == [items |-> <<>>, closed |-> FALSE, limit |-> limit]

\* Queue.Size()
Size(q) == Len(q.items)

\* An Enqueue that does not look at the closed flag.
Enqueue_ignoresClose(q, v) ==
    IF Len(q.items) >= q.limit
    THEN [q EXCEPT !.items = Append(Tail(@), v)]
    ELSE [q EXCEPT !.items = Append(@, v)]

\* Queue.Enqueue(v): never blocks; a closed queue takes nothing; a full queue
\* drops its oldest item to admit v.
Enqueue(q, v) ==
    IF q.closed THEN q
    ELSE IF Len(q.items) >= q.limit
         THEN [q EXCEPT !.items = Append(Tail(@), v)]
         ELSE [q EXCEPT !.items = Append(@, v)]

\* Queue.Dequeue(ctx) with a context that is never cancelled: blocks until an
\* item is available or the queue is closed.
DequeueReady(q) == q.items # <<>> \/ q.closed

\* The error of a Dequeue that returns: nil while items remain, the closed
\* error once the queue is closed and drained.
DequeueErr(q) == IF q.items # <<>> THEN "nil" ELSE "closed"

\* The item a Dequeue returns, and the queue it leaves.
DequeueItem(q) == Head(q.items)
DequeueRest(q) == [q EXCEPT !.items = Tail(@)]

\* Queue.Close(): idempotent.
QueueClose(q) == [q EXCEPT !.closed = TRUE]

\* ------------------------------------------------------------------ Init

\* A transport whose queues are created one slot too large.
NewPacketQueue_oversized == QueueNew(packetBufferSize + 1)

\* NewTransport: queue.New(packetBufferSize), for either queue.
NewPacketQueue == QueueNew(packetBufferSize)

\* What writeToSync has done for a packet that has just been dequeued:
\* no Pool.Get call, no SendPacket call, no error.
NoCalls == [gets |-> 0, rpcs |-> 0, err |-> "nil"]

\* The nil net.Addr.
NilAddr == [IP |-> <<>>, Port |-> 0]

InitOpts(packetTimeout, poolOptions) ==
    /\ inPacketQueue = NewPacketQueue
    /\ outPacketQueue = NewPacketQueue
    /\ ctxDone = FALSE
    /\ exited = FALSE
    /\ closedMut = 0
    /\ wg = 0
    /\ runPc = "start"
    /\ inPc = "unstarted"
    /\ inPkt = 0
    /\ outPc = "unstarted"
    /\ outPkt = 0
    /\ shutPc = [c \in ShutdownCallers |-> "idle"]
    /\ receiving = TRUE
    /\ inEnqueued = 0
    /\ outEnqueued = 0
    /\ delivered = <<>>
    /\ sent = <<>>
    /\ writeErr = "none"
    /\ rpcStatus = "none"
    /\ packetRxTotal = 0
    /\ packetTxTotal = 0
    /\ packetTxFailedTotal = 0
    /\ outCall = NoCalls
    /\ openStreams = 0
    /\ PacketTimeout = packetTimeout
    /\ dialPc = "idle"
    /\ dialTimeout = 0
    /\ dialCtx = [has |-> FALSE, deadline |-> 0]
    /\ dialClock = 0
    /\ dialResult = "none"
    /\ dialConns = <<>>
    /\ spPc = "idle"
    /\ spStatus = "none"
    /\ accepted = FALSE
    /\ waitClosed = FALSE
    /\ connState = "none"
    /\ onCloseCalls = 0
    /\ stream = <<>>
    /\ writtenBytes = 0
    /\ readBuffer = <<>>
    /\ readPc = "idle"
    /\ readN = 0
    /\ readOut = <<>>
    /\ readErr = "none"
    /\ localWrites = 0
    /\ writeResult = "none"
    /\ closePc = [c \in Closers |-> "idle"]
    /\ closeCalls = [c \in Closers |-> 0]
    /\ poolEntries = {}
    /\ poolDialed = 0
    /\ poolConns = [a \in Addrs |-> {}]
    /\ getPc = [g \in Getters |-> "idle"]
    /\ getAddr = [g \in Getters |-> "a1"]
    /\ getConn = [g \in Getters |-> 0]
    /\ getResult = [g \in Getters |-> 0]
    /\ getErr = [g \in Getters |-> "none"]
    /\ poolReturned = [a \in Addrs |-> {}]
    /\ poolOverlapped = [a \in Addrs |-> FALSE]
    /\ poolOpts = poolOptions
    /\ poolLru = <<>>
    /\ poolRefs = [h \in 1..MaxDials |-> 0]
    /\ poolClosed = [h \in 1..MaxDials |-> <<>>]
    /\ getEvicted = [g \in Getters |-> FALSE]
    /\ getOverlap = [g \in Getters |-> FALSE]
    /\ localAddr = NilAddr
    /\ advIp = <<>>
    /\ advPort = 0
    /\ advRetIP = <<>>
    /\ advRetPort = 0
    /\ advErr = "none"

\* A pool without a limit on its connections.
PoolUnlimited == [MaxClients |-> 0, CleanupLRU |-> FALSE]

InitWith(packetTimeout) == InitOpts(packetTimeout, PoolUnlimited)

\* The transport as NewTransport leaves it, built without a packet timeout.
Init == InitWith(0)

\* ------------------------------------------------------------------ run

\* run: wg.Add(2) and the two `go func()` statements.
RunStart ==
    /\ runPc = "start"
    /\ wg' = 2
    /\ inPc' = "dequeue"
    /\ outPc' = "dequeue"
    /\ runPc' = "wait"
    /\ UNCHANGED <<inPacketQueue, outPacketQueue, ctxDone, exited, closedMut,
                   inPkt, outPkt, shutPc, receiving, inEnqueued,
                   outEnqueued, delivered, sent, writeErr, rpcStatus,
                   packetRxTotal, packetTxTotal, packetTxFailedTotal,
                   outCall>>
    /\ UNCHANGED notTransport

\* run: <-ctx.Done() returns; the deferred calls now run last-in first-out.
RunCtxDone ==
    /\ runPc = "wait"
    /\ ctxDone
    /\ runPc' = "closeOut"
    /\ UNCHANGED <<inPacketQueue, outPacketQueue, ctxDone, exited, closedMut,
                   wg, inPc, inPkt, outPc, outPkt, shutPc, receiving, inEnqueued, outEnqueued, delivered, sent,
                   writeErr, rpcStatus, packetRxTotal, packetTxTotal,
                   packetTxFailedTotal,
                   outCall>>
    /\ UNCHANGED notTransport

\* run: defer func() { _ = t.outPacketQueue.Close() }()
RunCloseOut ==
    /\ runPc = "closeOut"
    /\ outPacketQueue' = QueueClose(outPacketQueue)
    /\ runPc' = "closeIn"
    /\ UNCHANGED <<inPacketQueue, ctxDone, exited, closedMut, wg, inPc, inPkt,
                   outPc, outPkt, shutPc, receiving, inEnqueued,
                   outEnqueued, delivered, sent, writeErr, rpcStatus,
                   packetRxTotal, packetTxTotal, packetTxFailedTotal,
                   outCall>>
    /\ UNCHANGED notTransport

\* run: defer func() { _ = t.inPacketQueue.Close() }()
RunCloseIn ==
    /\ runPc = "closeIn"
    /\ inPacketQueue' = QueueClose(inPacketQueue)
    /\ runPc' = "wgWait"
    /\ UNCHANGED <<outPacketQueue, ctxDone, exited, closedMut, wg, inPc, inPkt,
                   outPc, outPkt, shutPc, receiving, inEnqueued,
                   outEnqueued, delivered, sent, writeErr, rpcStatus,
                   packetRxTotal, packetTxTotal, packetTxFailedTotal,
                   outCall>>
    /\ UNCHANGED notTransport

\* A run that does not wait for its workers (the defer wg.Wait() left out).
RunWgWait_nowait ==
    /\ runPc = "wgWait"
    /\ runPc' = "closeExited"
    /\ UNCHANGED <<inPacketQueue, outPacketQueue, ctxDone, exited, closedMut,
                   wg, inPc, inPkt, outPc, outPkt, shutPc, receiving, inEnqueued, outEnqueued, delivered, sent,
                   writeErr, rpcStatus, packetRxTotal, packetTxTotal,
                   packetTxFailedTotal,
                   outCall>>
    /\ UNCHANGED notTransport

\* run: defer wg.Wait()
RunWgWait ==
    /\ runPc = "wgWait"
    /\ wg = 0
    /\ runPc' = "closeExited"
    /\ UNCHANGED <<inPacketQueue, outPacketQueue, ctxDone, exited, closedMut,
                   wg, inPc, inPkt, outPc, outPkt, shutPc, receiving, inEnqueued, outEnqueued, delivered, sent,
                   writeErr, rpcStatus, packetRxTotal, packetTxTotal,
                   packetTxFailedTotal,
                   outCall>>
    /\ UNCHANGED notTransport

\* run: defer close(t.exited)
RunCloseExited ==
    /\ runPc = "closeExited"
    /\ exited' = TRUE
    /\ runPc' = "done"
    /\ UNCHANGED <<inPacketQueue, outPacketQueue, ctxDone, closedMut, wg, inPc,
                   inPkt, outPc, outPkt, shutPc, receiving,
                   inEnqueued, outEnqueued, delivered, sent, writeErr,
                   rpcStatus, packetRxTotal, packetTxTotal,
                   packetTxFailedTotal,
                   outCall>>
    /\ UNCHANGED notTransport

\* ------------------------------------------------------------------ inbound worker

\* v, err := t.inPacketQueue.Dequeue(context.Background()); on an error the
\* worker returns (defer wg.Done()); otherwise it counts the packet.
InDequeue ==
    /\ inPc = "dequeue"
    /\ DequeueReady(inPacketQueue)
    /\ IF DequeueErr(inPacketQueue) = "nil"
       THEN /\ inPkt' = DequeueItem(inPacketQueue)
            /\ inPacketQueue' = DequeueRest(inPacketQueue)
            /\ packetRxTotal' = packetRxTotal + 1
            /\ inPc' = "send"
            /\ wg' = wg
       ELSE /\ inPc' = "done"
            /\ wg' = wg - 1
            /\ UNCHANGED <<inPkt, inPacketQueue, packetRxTotal>>
    /\ UNCHANGED <<outPacketQueue, ctxDone, exited, closedMut, runPc, outPc,
                   outPkt, shutPc, receiving, inEnqueued,
                   outEnqueued, delivered, sent, writeErr, rpcStatus,
                   packetTxTotal, packetTxFailedTotal,
                   outCall>>
    /\ UNCHANGED notTransport

\* A worker that stays at its send after the hand-over, so that the same
\* packet is handed over again.
InSend_again ==
    /\ inPc = "send"
    /\ receiving
    /\ delivered' = Append(delivered, inPkt)
    /\ inPc' = "send"
    /\ UNCHANGED <<inPacketQueue, outPacketQueue, ctxDone, exited, closedMut,
                   wg, runPc, inPkt, outPc, outPkt, shutPc, receiving, inEnqueued, outEnqueued, sent, writeErr,
                   rpcStatus, packetRxTotal, packetTxTotal,
                   packetTxFailedTotal,
                   outCall>>
    /\ UNCHANGED notTransport

\* t.inPacketCh <- pkt: the channel is unbuffered, so the send completes only
\* together with a receive by the protocol.
InSend ==
    /\ inPc = "send"
    /\ receiving
    /\ delivered' = Append(delivered, inPkt)
    /\ inPc' = "dequeue"
    /\ UNCHANGED <<inPacketQueue, outPacketQueue, ctxDone, exited, closedMut,
                   wg, runPc, inPkt, outPc, outPkt, shutPc, receiving, inEnqueued, outEnqueued, sent, writeErr,
                   rpcStatus, packetRxTotal, packetTxTotal,
                   packetTxFailedTotal,
                   outCall>>
    /\ UNCHANGED notTransport

\* The protocol stops receiving from PacketCh().
ProtocolStop ==
    /\ receiving
    /\ receiving' = FALSE
    /\ UNCHANGED <<inPacketQueue, outPacketQueue, ctxDone, exited, closedMut,
                   wg, runPc, inPc, inPkt, outPc, outPkt, shutPc, inEnqueued, outEnqueued, delivered, sent, writeErr,
                   rpcStatus, packetRxTotal, packetTxTotal,
                   packetTxFailedTotal,
                   outCall>>
    /\ UNCHANGED notTransport

\* ------------------------------------------------------------------ outbound worker

\* v, err := t.outPacketQueue.Dequeue(context.Background()); on an error the
\* worker returns (defer wg.Done()); otherwise it counts the packet and
\* enters writeToSync.
OutDequeue ==
    /\ outPc = "dequeue"
    /\ DequeueReady(outPacketQueue)
    /\ IF DequeueErr(outPacketQueue) = "nil"
       THEN /\ outPkt' = DequeueItem(outPacketQueue)
            /\ outPacketQueue' = DequeueRest(outPacketQueue)
            /\ packetTxTotal' = packetTxTotal + 1
            /\ outCall' = NoCalls
            /\ outPc' = "get"
            /\ wg' = wg
       ELSE /\ outPc' = "done"
            /\ wg' = wg - 1
            /\ UNCHANGED <<outPkt, outPacketQueue, packetTxTotal, outCall>>
    /\ UNCHANGED <<inPacketQueue, ctxDone, exited, closedMut, runPc, inPc,
                   inPkt, shutPc, receiving, inEnqueued,
                   outEnqueued, delivered, sent, writeErr, rpcStatus,
                   packetRxTotal, packetTxFailedTotal>>
    /\ UNCHANGED notTransport

\* A writeToSync that calls Pool.Get a second time after a failure.
OutPoolGet_retry(ok) ==
    /\ outPc = "get"
    /\ IF ok
       THEN /\ outPc' = "rpc"
            /\ outCall' = [outCall EXCEPT !.gets = @ + 1]
            /\ UNCHANGED packetTxFailedTotal
       ELSE /\ outPc' = IF outCall.gets = 0 THEN "get" ELSE "dequeue"
            /\ outCall' = [outCall EXCEPT !.gets = @ + 1, !.err = "Pool.Get"]
            /\ packetTxFailedTotal' = packetTxFailedTotal + 1
    /\ UNCHANGED <<inPacketQueue, outPacketQueue, ctxDone, exited, closedMut,
                   wg, runPc, inPc, inPkt, outPkt, shutPc, receiving,
                   inEnqueued, outEnqueued, delivered, sent, writeErr,
                   rpcStatus, packetRxTotal, packetTxTotal>>
    /\ UNCHANGED notTransport

\* writeToSync: cc, err := t.opts.Pool.Get(ctx, addr); on an error the failure
\* is counted and writeToSync returns.
OutPoolGet(ok) ==
    /\ outPc = "get"
    /\ IF ok
       THEN /\ outPc' = "rpc"
            /\ outCall' = [outCall EXCEPT !.gets = @ + 1]
            /\ UNCHANGED packetTxFailedTotal
       ELSE /\ outPc' = "dequeue"
            /\ outCall' = [outCall EXCEPT !.gets = @ + 1, !.err = "Pool.Get"]
            /\ packetTxFailedTotal' = packetTxFailedTotal + 1
    /\ UNCHANGED <<inPacketQueue, outPacketQueue, ctxDone, exited, closedMut,
                   wg, runPc, inPc, inPkt, outPkt, shutPc, receiving, inEnqueued, outEnqueued, delivered, sent,
                   writeErr, rpcStatus, packetRxTotal, packetTxTotal>>
    /\ UNCHANGED notTransport

\* writeToSync: _, err = cli.SendPacket(ctx, &Message{Data: b}); a failure is
\* counted.  Either way the worker goes on with the next packet.
OutSendPacket(ok) ==
    /\ outPc = "rpc"
    /\ sent' = Append(sent, outPkt)
    /\ packetTxFailedTotal' = IF ok THEN packetTxFailedTotal
                              ELSE packetTxFailedTotal + 1
    /\ outCall' = [outCall EXCEPT !.rpcs = @ + 1,
                                  !.err = IF ok THEN @ ELSE "SendPacket"]
    /\ outPc' = "dequeue"
    /\ UNCHANGED <<inPacketQueue, outPacketQueue, ctxDone, exited, closedMut,
                   wg, runPc, inPc, inPkt, outPkt, shutPc, receiving, inEnqueued, outEnqueued, delivered, writeErr,
                   rpcStatus, packetRxTotal, packetTxTotal>>
    /\ UNCHANGED notTransport

\* ------------------------------------------------------------------ Transport API

\* WriteTo that waits for free space in the outbound queue instead of
\* dropping the oldest packet.
WriteTo_blocking ==
    /\ outEnqueued < MaxPackets
    /\ Size(outPacketQueue) < packetBufferSize
    /\ outEnqueued' = outEnqueued + 1
    /\ outPacketQueue' = Enqueue(outPacketQueue, outEnqueued + 1)
    /\ writeErr' = "nil"
    /\ UNCHANGED <<inPacketQueue, ctxDone, exited, closedMut, wg, runPc, inPc,
                   inPkt, outPc, outPkt, shutPc, receiving,
                   inEnqueued, delivered, sent, rpcStatus, packetRxTotal,
                   packetTxTotal, packetTxFailedTotal,
                   outCall>>
    /\ UNCHANGED notTransport

\* WriteTo (and WriteToAddress, which forwards to it): one Enqueue on the
\* outbound queue, then `return time.Now(), nil`.
WriteTo ==
    /\ outEnqueued < MaxPackets
    /\ outEnqueued' = outEnqueued + 1
    /\ outPacketQueue' = Enqueue(outPacketQueue, outEnqueued + 1)
    /\ writeErr' = "nil"
    /\ UNCHANGED <<inPacketQueue, ctxDone, exited, closedMut, wg, runPc, inPc,
                   inPkt, outPc, outPkt, shutPc, receiving,
                   inEnqueued, delivered, sent, rpcStatus, packetRxTotal,
                   packetTxTotal, packetTxFailedTotal,
                   outCall>>
    /\ UNCHANGED notTransport

\* A SendPacket that hands the packet to the protocol itself, on the RPC
\* handler's goroutine.
SendPacket_handsOff(hasPeer) ==
    /\ inEnqueued < MaxPackets
    /\ IF hasPeer
       THEN /\ receiving
            /\ inEnqueued' = inEnqueued + 1
            /\ delivered' = Append(delivered, inEnqueued + 1)
            /\ rpcStatus' = "OK"
       ELSE /\ rpcStatus' = "Internal"
            /\ UNCHANGED <<inEnqueued, delivered>>
    /\ UNCHANGED <<inPacketQueue, outPacketQueue, ctxDone, exited, closedMut,
                   wg, runPc, inPc, inPkt, outPc, outPkt, shutPc, receiving,
                   outEnqueued, sent, writeErr, packetRxTotal, packetTxTotal,
                   packetTxFailedTotal, outCall>>
    /\ UNCHANGED notTransport

\* transportServer.SendPacket: without a peer in the context the call fails
\* with codes.Internal; otherwise one Enqueue on the inbound queue.
SendPacket(hasPeer) ==
    /\ inEnqueued < MaxPackets
    /\ IF hasPeer
       THEN /\ inEnqueued' = inEnqueued + 1
            /\ inPacketQueue' = Enqueue(inPacketQueue, inEnqueued + 1)
            /\ rpcStatus' = "OK"
       ELSE /\ rpcStatus' = "Internal"
            /\ UNCHANGED <<inEnqueued, inPacketQueue>>
    /\ UNCHANGED <<outPacketQueue, ctxDone, exited, closedMut, wg, runPc, inPc,
                   inPkt, outPc, outPkt, shutPc, receiving,
                   outEnqueued, delivered, sent, writeErr, packetRxTotal,
                   packetTxTotal, packetTxFailedTotal,
                   outCall>>
    /\ UNCHANGED notTransport

\* A goroutine calls Shutdown.
ShutdownCall(c) ==
    /\ shutPc[c] = "idle"
    /\ shutPc' = [shutPc EXCEPT ![c] = "lock"]
    /\ UNCHANGED <<inPacketQueue, outPacketQueue, ctxDone, exited, closedMut,
                   wg, runPc, inPc, inPkt, outPc, outPkt, receiving, inEnqueued, outEnqueued, delivered, sent,
                   writeErr, rpcStatus, packetRxTotal, packetTxTotal,
                   packetTxFailedTotal,
                   outCall>>
    /\ UNCHANGED notTransport

\* Shutdown: t.closedMut.Lock()
ShutdownLock(c) ==
    /\ shutPc[c] = "lock"
    /\ closedMut = 0
    /\ closedMut' = c
    /\ shutPc' = [shutPc EXCEPT ![c] = "cancel"]
    /\ UNCHANGED <<inPacketQueue, outPacketQueue, ctxDone, exited, wg, runPc,
                   inPc, inPkt, outPc, outPkt, receiving,
                   inEnqueued, outEnqueued, delivered, sent, writeErr,
                   rpcStatus, packetRxTotal, packetTxTotal,
                   packetTxFailedTotal,
                   outCall>>
    /\ UNCHANGED notTransport

\* Shutdown: t.cancel()
ShutdownCancel(c) ==
    /\ shutPc[c] = "cancel"
    /\ ctxDone' = TRUE
    /\ shutPc' = [shutPc EXCEPT ![c] = "wait"]
    /\ UNCHANGED <<inPacketQueue, outPacketQueue, exited, closedMut, wg, runPc,
                   inPc, inPkt, outPc, outPkt, receiving,
                   inEnqueued, outEnqueued, delivered, sent, writeErr,
                   rpcStatus, packetRxTotal, packetTxTotal,
                   packetTxFailedTotal,
                   outCall>>
    /\ UNCHANGED notTransport

\* Shutdown: <-t.exited, then the deferred t.closedMut.Unlock() and return nil.
ShutdownReturn(c) ==
    /\ shutPc[c] = "wait"
    /\ exited
    /\ closedMut' = 0
    /\ shutPc' = [shutPc EXCEPT ![c] = "returned"]
    /\ UNCHANGED <<inPacketQueue, outPacketQueue, ctxDone, exited, wg, runPc,
                   inPc, inPkt, outPc, outPkt, receiving, inEnqueued,
                   outEnqueued, delivered, sent, writeErr, rpcStatus,
                   packetRxTotal, packetTxTotal, packetTxFailedTotal,
                   outCall>>
    /\ UNCHANGED notTransport

\* ------------------------------------------------------------------ DialTimeout

\* DialTimeout(addr, timeout): ctx is context.Background(), and with
\* timeout > 0 it gets a deadline of t.opts.PacketTimeout from now.
DialCall(timeout) ==
    /\ dialPc = "idle"
    /\ Len(dialConns) < MaxStreams
    /\ dialTimeout' = timeout
    /\ dialClock' = 0
    /\ dialCtx' = IF timeout > 0
                  THEN [has |-> TRUE, deadline |-> PacketTimeout]
                  ELSE [has |-> FALSE, deadline |-> 0]
    /\ dialResult' = "none"
    /\ dialPc' = "get"
    /\ UNCHANGED <<PacketTimeout, openStreams, dialConns>>
    /\ UNCHANGED notDial

\* Time passes while DialTimeout waits: in Pool.Get(ctx, addr) no longer
\* than ctx allows, in cli.StreamPackets(context.Background()) without a
\* limit.
DialTick ==
    /\ dialPc \in {"get", "open"}
    /\ dialClock < MaxClock
    /\ (dialPc = "get" /\ dialCtx.has) => dialClock < dialCtx.deadline
    /\ dialClock' = dialClock + 1
    /\ UNCHANGED <<PacketTimeout, dialPc, dialTimeout, dialCtx, dialResult,
                   openStreams, dialConns>>
    /\ UNCHANGED notDial

\* cc, err := t.opts.Pool.Get(ctx, addr); on an error DialTimeout returns it.
DialPoolGet(ok) ==
    /\ dialPc = "get"
    /\ IF ok
       THEN /\ dialPc' = "open"
            /\ UNCHANGED dialResult
       ELSE /\ dialPc' = "done"
            /\ dialResult' = "err"
    /\ UNCHANGED <<PacketTimeout, dialTimeout, dialCtx, dialClock, openStreams,
                   dialConns>>
    /\ UNCHANGED notDial

\* A DialTimeout that counts the stream before it looks at the error.
DialOpenStream_countsFirst(ok) ==
    /\ dialPc = "open"
    /\ openStreams' = openStreams + 1
    /\ IF ok
       THEN /\ dialConns' = Append(dialConns, "Open")
            /\ dialResult' = "conn"
       ELSE /\ dialResult' = "err"
            /\ UNCHANGED dialConns
    /\ dialPc' = "done"
    /\ UNCHANGED <<PacketTimeout, dialTimeout, dialCtx, dialClock>>
    /\ UNCHANGED notDial

\* packetsClient, err := cli.StreamPackets(context.Background()); on an
\* error DialTimeout returns it, otherwise it counts the stream and returns
\* the adapter.
DialOpenStream(ok) ==
    /\ dialPc = "open"
    /\ IF ok
       THEN /\ openStreams' = openStreams + 1
            /\ dialConns' = Append(dialConns, "Open")
            /\ dialResult' = "conn"
       ELSE /\ dialResult' = "err"
            /\ UNCHANGED <<openStreams, dialConns>>
    /\ dialPc' = "done"
    /\ UNCHANGED <<PacketTimeout, dialTimeout, dialCtx, dialClock>>
    /\ UNCHANGED notDial

\* The caller has taken the result; the next DialTimeout call can start.
DialReturn ==
    /\ dialPc = "done"
    /\ dialPc' = "idle"
    /\ UNCHANGED <<PacketTimeout, dialTimeout, dialCtx, dialClock, dialResult,
                   openStreams, dialConns>>
    /\ UNCHANGED notDial

\* The onClose callback DialTimeout gives the adapter:
\* t.metrics.openStreams.Dec()
ClientOnClose == openStreams' = openStreams - 1

\* Close() on the i-th adapter DialTimeout returned: the first call moves it
\* from Open to Closing; any other call finds it closing or closed and
\* returns.
ClientClose(i) ==
    /\ i \in 1..Len(dialConns)
    /\ dialConns' = IF dialConns[i] = "Open"
                    THEN [dialConns EXCEPT ![i] = "Closing"]
                    ELSE dialConns
    /\ UNCHANGED <<PacketTimeout, dialPc, dialTimeout, dialCtx, dialClock,
                   dialResult, openStreams>>
    /\ UNCHANGED notDial

\* Close(), the call that closes: it releases the stream, runs onClose and
\* leaves the adapter Closed.
ClientCloseFinish(i) ==
    /\ i \in 1..Len(dialConns)
    /\ dialConns[i] = "Closing"
    /\ ClientOnClose
    /\ dialConns' = [dialConns EXCEPT ![i] = "Closed"]
    /\ UNCHANGED <<PacketTimeout, dialPc, dialTimeout, dialCtx, dialClock,
                   dialResult>>
    /\ UNCHANGED notDial

\* A transport built with any Options.PacketTimeout.
DialInit == \E packetTimeout \in 0..MaxTimeout : InitWith(packetTimeout)

DialNext ==
    \/ \E timeout \in 0..MaxTimeout : DialCall(timeout)
    \/ DialTick
    \/ \E ok \in BOOLEAN : DialPoolGet(ok)
    \/ \E ok \in BOOLEAN : DialOpenStream(ok)
    \/ DialReturn

SpecDial == DialInit /\ [][DialNext]_vars

\* ------------------------------------------------------------------ StreamPackets and the stream adapter

Min(a, b) == IF a < b THEN a ELSE b

\* The first n elements of s, and what is left after them.
Take(s, n) == SubSeq(s, 1, Min(n, Len(s)))
Drop(s, n) == SubSeq(s, Min(n, Len(s)) + 1, Len(s))

\* The bytes first + 1 .. first + n, in order.
Bytes(first, n) == [i \in 1..n |-> first + i]

\* A StreamPackets that counts the stream before it looks for the peer.
StreamPackets_incFirst(hasPeer) ==
    /\ spPc = "idle"
    /\ openStreams' = openStreams + 1
    /\ IF hasPeer
       THEN /\ connState' = "Open"
            /\ spPc' = "send"
            /\ UNCHANGED spStatus
       ELSE /\ spStatus' = "Internal"
            /\ UNCHANGED <<connState, spPc>>
    /\ UNCHANGED <<accepted, waitClosed, onCloseCalls, stream, writtenBytes,
                   readBuffer, readPc, readN, readOut, readErr, localWrites,
                   writeResult, closePc, closeCalls>>
    /\ UNCHANGED notConn

\* transportServer.StreamPackets up to the hand-over: without a peer in the
\* context the call fails with codes.Internal; otherwise the gauge is
\* incremented and the adapter is created.
StreamPackets(hasPeer) ==
    /\ spPc = "idle"
    /\ IF hasPeer
       THEN /\ openStreams' = openStreams + 1
            /\ connState' = "Open"
            /\ spPc' = "send"
            /\ UNCHANGED spStatus
       ELSE /\ spStatus' = "Internal"
            /\ UNCHANGED <<openStreams, connState, spPc>>
    /\ UNCHANGED <<accepted, waitClosed, onCloseCalls, stream, writtenBytes,
                   readBuffer, readPc, readN, readOut, readErr, localWrites,
                   writeResult, closePc, closeCalls>>
    /\ UNCHANGED notConn

\* s.t.streamCh <- conn: the channel is unbuffered, the send completes when
\* the protocol receives the adapter.
StreamAccept ==
    /\ spPc = "send"
    /\ accepted' = TRUE
    /\ spPc' = "waitClosed"
    /\ UNCHANGED <<spStatus, waitClosed, connState, onCloseCalls, stream,
                   writtenBytes, readBuffer, readPc, readN, readOut, readErr,
                   localWrites, writeResult, closePc, closeCalls, openStreams>>
    /\ UNCHANGED notConn

\* A handler that returns as soon as the adapter has been handed over.
StreamPacketsReturn_nowait ==
    /\ spPc = "waitClosed"
    /\ spPc' = "returned"
    /\ spStatus' = "OK"
    /\ UNCHANGED <<accepted, waitClosed, connState, onCloseCalls, stream,
                   writtenBytes, readBuffer, readPc, readN, readOut, readErr,
                   localWrites, writeResult, closePc, closeCalls, openStreams>>
    /\ UNCHANGED notConn

\* <-waitClosed; return nil
StreamPacketsReturn ==
    /\ spPc = "waitClosed"
    /\ waitClosed
    /\ spPc' = "returned"
    /\ spStatus' = "OK"
    /\ UNCHANGED <<accepted, waitClosed, connState, onCloseCalls, stream,
                   writtenBytes, readBuffer, readPc, readN, readOut, readErr,
                   localWrites, writeResult, closePc, closeCalls, openStreams>>
    /\ UNCHANGED notConn

\* An onClose that forgets the gauge.
ServerOnClose_noDec ==
    /\ UNCHANGED openStreams
    /\ waitClosed' = TRUE

\* The onClose callback StreamPackets gives the adapter:
\* s.t.metrics.openStreams.Dec(); close(waitClosed)
ServerOnClose ==
    /\ openStreams' = openStreams - 1
    /\ waitClosed' = TRUE

\* The peer writes one message of n bytes on the stream.
PeerWrite(n) ==
    /\ connState = "Open"
    /\ writtenBytes + n <= MaxBytes
    /\ stream' = Append(stream, Bytes(writtenBytes, n))
    /\ writtenBytes' = writtenBytes + n
    /\ UNCHANGED <<spPc, spStatus, accepted, waitClosed, connState,
                   onCloseCalls, readBuffer, readPc, readN, readOut, readErr,
                   localWrites, writeResult, closePc, closeCalls, openStreams>>
    /\ UNCHANGED notConn

\* Read(b) with len(b) = n: fails with ConnectionClosed once the adapter is
\* no longer open; returns bytes left over from an earlier message if there
\* are any; otherwise blocks for the next message.
ReadCall(n) ==
    /\ accepted
    /\ readPc = "idle"
    /\ IF connState # "Open"
       THEN /\ readErr' = "ConnectionClosed"
            /\ UNCHANGED <<readBuffer, readOut, readPc, readN>>
       ELSE IF readBuffer # <<>>
       THEN /\ readOut' = readOut \o Take(readBuffer, n)
            /\ readBuffer' = Drop(readBuffer, n)
            /\ readErr' = "nil"
            /\ UNCHANGED <<readPc, readN>>
       ELSE /\ readPc' = "reading"
            /\ readN' = n
            /\ UNCHANGED <<readBuffer, readOut, readErr>>
    /\ UNCHANGED <<spPc, spStatus, accepted, waitClosed, connState,
                   onCloseCalls, stream, writtenBytes, localWrites,
                   writeResult, closePc, closeCalls, openStreams>>
    /\ UNCHANGED notConn

\* A Read that throws away what does not fit into its buffer.
ReadDeliver_dropsRemainder ==
    /\ readPc = "reading"
    /\ connState = "Open"
    /\ stream # <<>>
    /\ readOut' = readOut \o Take(Head(stream), readN)
    /\ readBuffer' = <<>>
    /\ stream' = Tail(stream)
    /\ readErr' = "nil"
    /\ readPc' = "idle"
    /\ UNCHANGED <<spPc, spStatus, accepted, waitClosed, connState,
                   onCloseCalls, writtenBytes, readN, localWrites,
                   writeResult, closePc, closeCalls, openStreams>>
    /\ UNCHANGED notConn

\* The receive loop hands the next message to the blocked Read, which
\* returns as much of it as fits and keeps the remainder.
ReadDeliver ==
    /\ readPc = "reading"
    /\ connState = "Open"
    /\ stream # <<>>
    /\ readOut' = readOut \o Take(Head(stream), readN)
    /\ readBuffer' = Drop(Head(stream), readN)
    /\ stream' = Tail(stream)
    /\ readErr' = "nil"
    /\ readPc' = "idle"
    /\ UNCHANGED <<spPc, spStatus, accepted, waitClosed, connState,
                   onCloseCalls, writtenBytes, readN, localWrites,
                   writeResult, closePc, closeCalls, openStreams>>
    /\ UNCHANGED notConn

\* A blocked Read wakes up because the adapter is being closed.
ReadWake ==
    /\ readPc = "reading"
    /\ connState # "Open"
    /\ readErr' = "ConnectionClosed"
    /\ readPc' = "idle"
    /\ UNCHANGED <<spPc, spStatus, accepted, waitClosed, connState,
                   onCloseCalls, stream, writtenBytes, readBuffer, readN,
                   readOut, localWrites, writeResult, closePc, closeCalls,
                   openStreams>>
    /\ UNCHANGED notConn

\* Write(b): one message on the stream per call while the adapter is open
\* (StreamError if the stream reports an error), ConnectionClosed after.
WriteCall(ok) ==
    /\ accepted
    /\ IF connState # "Open"
       THEN /\ writeResult' = "ConnectionClosed"
            /\ UNCHANGED localWrites
       ELSE /\ localWrites < MaxLocalWrites
            /\ localWrites' = localWrites + 1
            /\ writeResult' = IF ok THEN "nil" ELSE "StreamError"
    /\ UNCHANGED <<spPc, spStatus, accepted, waitClosed, connState,
                   onCloseCalls, stream, writtenBytes, readBuffer, readPc,
                   readN, readOut, readErr, closePc, closeCalls, openStreams>>
    /\ UNCHANGED notConn

\* Close(): the first call moves the adapter from Open to Closing; any
\* other call finds it closing or closed and returns.
CloseBegin(c) ==
    /\ accepted
    /\ closePc[c] = "idle"
    /\ closeCalls[c] < MaxCloseCalls
    /\ closeCalls' = [closeCalls EXCEPT ![c] = @ + 1]
    /\ IF connState = "Open"
       THEN /\ connState' = "Closing"
            /\ closePc' = [closePc EXCEPT ![c] = "closing"]
       ELSE /\ UNCHANGED <<connState, closePc>>
    /\ UNCHANGED <<spPc, spStatus, accepted, waitClosed, onCloseCalls, stream,
                   writtenBytes, readBuffer, readPc, readN, readOut, readErr,
                   localWrites, writeResult, openStreams>>
    /\ UNCHANGED notConn

\* Close(), the call that closes: it releases the stream, runs onClose and
\* leaves the adapter Closed.
CloseFinish(c) ==
    /\ closePc[c] = "closing"
    /\ ServerOnClose
    /\ onCloseCalls' = onCloseCalls + 1
    /\ connState' = "Closed"
    /\ closePc' = [closePc EXCEPT ![c] = "idle"]
    /\ UNCHANGED <<spPc, spStatus, accepted, stream, writtenBytes, readBuffer,
                   readPc, readN, readOut, readErr, localWrites, writeResult,
                   closeCalls>>
    /\ UNCHANGED notConn

ConnNext ==
    \/ \E hasPeer \in BOOLEAN : StreamPackets(hasPeer)
    \/ StreamAccept
    \/ StreamPacketsReturn
    \/ \E n \in 1..MaxMsgLen : PeerWrite(n)
    \/ \E n \in 1..MaxBuf : ReadCall(n)
    \/ ReadDeliver
    \/ ReadWake
    \/ \E ok \in BOOLEAN : WriteCall(ok)
    \/ \E c \in Closers : CloseBegin(c)
    \/ \E c \in Closers : CloseFinish(c)

SpecConn == Init /\ [][ConnNext]_vars

\* The goroutine of the StreamPackets handler is scheduled: it returns once
\* waitClosed is closed.  The protocol is under no obligation to receive
\* the adapter, to use it or to close it.
FairSpecConn == SpecConn /\ WF_vars(StreamPacketsReturn)

\* ------------------------------------------------------------------ the connection pool

\* The entries the pool holds for an address.
EntriesFor(a) == {e \in poolEntries : e.addr = a}

\* The Gets that are between their lookup and their insert.
InFlight(a) == {g \in Getters : getPc[g] \in {"dial", "insert"} /\ getAddr[g] = a}

\* The Gets, other than g, that are between their lookup and their insert.
OthersInFlight(g) == {h \in Getters \ {g} : getPc[h] \in {"dial", "insert"}}

\* The order of use with address a taken out, and with a as the most
\* recently used one.
LruWithout(a) == SelectSeq(poolLru, LAMBDA x : x # a)
LruTouch(a) == Append(LruWithout(a), a)

\* The pool is at its configured maximum (MaxClients = 0: no maximum).
PoolAtMax ==
    /\ poolOpts.MaxClients > 0
    /\ Cardinality(poolEntries) >= poolOpts.MaxClients

\* A pool that evicts whether or not CleanupLRU is set.
PoolMayEvict_always == TRUE

\* LRU eviction is enabled.
PoolMayEvict == poolOpts.CleanupLRU

\* An eviction that takes the most recently used entry.
PoolVictim_newest == poolLru[Len(poolLru)]

\* The address of the entry to evict: the one with the oldest last use.
PoolVictim == Head(poolLru)

\* A GC that does not look at the reference count.
PoolGCMay_any(e) == TRUE

\* GC may remove an entry only while no caller holds a reference to it.
PoolGCMay(e) == poolRefs[e.conn] = 0

\* What a lookup that goes on to dial records about the Gets in flight.
MarkOverlap(g, a) ==
    /\ poolOverlapped' = [poolOverlapped EXCEPT ![a] = @ \/ InFlight(a) # {}]
    /\ getOverlap' = [h \in Getters |->
                        IF h = g THEN OthersInFlight(g) # {}
                        ELSE IF h \in OthersInFlight(g) THEN TRUE
                        ELSE getOverlap[h]]

\* A Get whose lookup never finds the cached entry.
PoolGetCall_alwaysMiss(g, a) ==
    /\ getPc[g] = "idle"
    /\ poolDialed + Cardinality({h \in Getters : getPc[h] = "dial"}) < MaxDials
    /\ getAddr' = [getAddr EXCEPT ![g] = a]
    /\ getPc' = [getPc EXCEPT ![g] = "dial"]
    /\ getResult' = [getResult EXCEPT ![g] = 0]
    /\ getErr' = [getErr EXCEPT ![g] = "none"]
    /\ getEvicted' = [getEvicted EXCEPT ![g] = FALSE]
    /\ MarkOverlap(g, a)
    /\ UNCHANGED <<poolEntries, poolDialed, poolConns, getConn, poolReturned,
                   poolOpts, poolLru, poolRefs, poolClosed>>
    /\ UNCHANGED notPool

\* Pool.Get(ctx, addr), the lookup under the structural lock: a cached
\* entry is returned at once, its last use refreshed.  Without one, a pool
\* at its maximum either fails with MaxConnsExceeded or, with LRU eviction,
\* removes and closes the least recently used entry; then the Get goes on
\* to dial, after giving up the lock.
PoolGetCall(g, a) ==
    /\ getPc[g] = "idle"
    /\ getAddr' = [getAddr EXCEPT ![g] = a]
    /\ IF EntriesFor(a) # {}
       THEN /\ \E e \in EntriesFor(a) :
                 /\ getResult' = [getResult EXCEPT ![g] = e.conn]
                 /\ poolReturned' = [poolReturned EXCEPT ![a] = @ \cup {e.conn}]
                 /\ poolRefs' = [poolRefs EXCEPT ![e.conn] = @ + 1]
            /\ poolLru' = LruTouch(a)
            /\ getPc' = [getPc EXCEPT ![g] = "done"]
            /\ getErr' = [getErr EXCEPT ![g] = "none"]
            /\ getEvicted' = [getEvicted EXCEPT ![g] = FALSE]
            /\ UNCHANGED <<poolOverlapped, getOverlap, poolEntries, poolClosed>>
       ELSE IF PoolAtMax /\ ~PoolMayEvict
       THEN /\ getErr' = [getErr EXCEPT ![g] = "MaxConnsExceeded"]
            /\ getResult' = [getResult EXCEPT ![g] = 0]
            /\ getPc' = [getPc EXCEPT ![g] = "done"]
            /\ getEvicted' = [getEvicted EXCEPT ![g] = FALSE]
            /\ UNCHANGED <<poolOverlapped, getOverlap, poolEntries, poolClosed,
                           poolLru, poolRefs, poolReturned>>
       ELSE /\ poolDialed + Cardinality({h \in Getters : getPc[h] = "dial"}) < MaxDials
            /\ getPc' = [getPc EXCEPT ![g] = "dial"]
            /\ getResult' = [getResult EXCEPT ![g] = 0]
            /\ getErr' = [getErr EXCEPT ![g] = "none"]
            /\ MarkOverlap(g, a)
            /\ IF PoolAtMax
               THEN /\ poolEntries' = poolEntries \ EntriesFor(PoolVictim)
                    /\ poolLru' = LruWithout(PoolVictim)
                    /\ poolClosed' = [h \in 1..MaxDials |->
                          IF \E e \in EntriesFor(PoolVictim) : e.conn = h
                          THEN Append(poolClosed[h], "evict")
                          ELSE poolClosed[h]]
                    /\ getEvicted' = [getEvicted EXCEPT ![g] =
                          Cardinality(poolEntries) = poolOpts.MaxClients]
               ELSE /\ getEvicted' = [getEvicted EXCEPT ![g] = FALSE]
                    /\ UNCHANGED <<poolEntries, poolLru, poolClosed>>
            /\ UNCHANGED <<poolReturned, poolRefs>>
    /\ UNCHANGED <<poolDialed, poolConns, getConn, poolOpts>>
    /\ UNCHANGED notPool

\* Pool.Get, the dial, made without the structural lock: a failed dial ends
\* the Get with DialError and caches nothing.
PoolDial(g, ok) ==
    /\ getPc[g] = "dial"
    /\ poolDialed' = poolDialed + 1
    /\ IF ok
       THEN /\ getConn' = [getConn EXCEPT ![g] = poolDialed + 1]
            /\ poolConns' = [poolConns EXCEPT ![getAddr[g]] = @ \cup {poolDialed + 1}]
            /\ getPc' = [getPc EXCEPT ![g] = "insert"]
            /\ UNCHANGED getErr
       ELSE /\ getErr' = [getErr EXCEPT ![g] = "DialError"]
            /\ getPc' = [getPc EXCEPT ![g] = "done"]
            /\ UNCHANGED <<getConn, poolConns>>
    /\ UNCHANGED <<poolEntries, getAddr, getResult, poolReturned, poolOverlapped,
                   poolOpts, poolLru, poolRefs, poolClosed, getEvicted,
                   getOverlap>>
    /\ UNCHANGED notPool

\* Pool.Get, under the structural lock again: the dialed connection is
\* cached as the entry of the address, as the most recently used one, and
\* returned.
PoolInsert(g) ==
    /\ getPc[g] = "insert"
    /\ poolEntries' = (poolEntries \ EntriesFor(getAddr[g]))
                         \cup {[addr |-> getAddr[g], conn |-> getConn[g]]}
    /\ poolLru' = LruTouch(getAddr[g])
    /\ poolRefs' = [poolRefs EXCEPT ![getConn[g]] = @ + 1]
    /\ getResult' = [getResult EXCEPT ![g] = getConn[g]]
    /\ poolReturned' = [poolReturned EXCEPT ![getAddr[g]] = @ \cup {getConn[g]}]
    /\ getPc' = [getPc EXCEPT ![g] = "done"]
    /\ UNCHANGED <<poolDialed, poolConns, getAddr, getConn, getErr,
                   poolOverlapped, poolOpts, poolClosed, getEvicted, getOverlap>>
    /\ UNCHANGED notPool

\* The caller is done with what its Get returned: its reference to the
\* connection, if it got one, is given up, the call's results are gone, and
\* it can call again.
PoolGetReturn(g) ==
    /\ getPc[g] = "done"
    /\ getPc' = [getPc EXCEPT ![g] = "idle"]
    /\ poolRefs' = IF getResult[g] # 0
                   THEN [poolRefs EXCEPT ![getResult[g]] = @ - 1]
                   ELSE poolRefs
    /\ getAddr' = [getAddr EXCEPT ![g] = "a1"]
    /\ getConn' = [getConn EXCEPT ![g] = 0]
    /\ getResult' = [getResult EXCEPT ![g] = 0]
    /\ getErr' = [getErr EXCEPT ![g] = "none"]
    /\ getEvicted' = [getEvicted EXCEPT ![g] = FALSE]
    /\ getOverlap' = [getOverlap EXCEPT ![g] = FALSE]
    /\ UNCHANGED <<poolEntries, poolDialed, poolConns, poolReturned,
                   poolOverlapped, poolOpts, poolLru, poolClosed>>
    /\ UNCHANGED notPool

\* One removal of the background GC: an entry whose connection is broken or
\* has been idle for longer than the threshold is removed and its
\* connection closed, unless a caller holds a reference to it.
PoolGC(e) ==
    /\ e \in poolEntries
    /\ PoolGCMay(e)
    /\ poolEntries' = poolEntries \ {e}
    /\ poolLru' = LruWithout(e.addr)
    /\ poolClosed' = [poolClosed EXCEPT ![e.conn] = Append(@, "gc")]
    /\ UNCHANGED <<poolDialed, poolConns, getPc, getAddr, getConn, getResult,
                   getErr, poolReturned, poolOverlapped, poolOpts, poolRefs,
                   getEvicted, getOverlap>>
    /\ UNCHANGED notPool

PoolNext ==
    \/ \E g \in Getters, a \in Addrs : PoolGetCall(g, a)
    \/ \E g \in Getters, ok \in BOOLEAN : PoolDial(g, ok)
    \/ \E g \in Getters : PoolInsert(g)
    \/ \E g \in Getters : PoolGetReturn(g)

SpecPool == Init /\ [][PoolNext]_vars

\* A pool built with any Options.MaxClients and Options.CleanupLRU.
PoolMaxInit ==
    \E m \in 0..MaxPoolClients, lru \in BOOLEAN :
        InitOpts(0, [MaxClients |-> m, CleanupLRU |-> lru])

PoolMaxNext ==
    \/ \E g \in Getters, a \in Addrs : PoolGetCall(g, a)
    \/ \E g \in Getters, ok \in BOOLEAN : PoolDial(g, ok)
    \/ \E g \in Getters : PoolInsert(g)
    \/ \E g \in Getters : PoolGetReturn(g)
    \/ \E e \in poolEntries : PoolGC(e)

SpecPoolMax == PoolMaxInit /\ [][PoolMaxNext]_vars

\* ------------------------------------------------------------------ FinalAdvertiseAddr

\* A string is the sequence of its characters.  The fields of s between
\* the occurrences of the separator sep.
RECURSIVE Split(_, _)
Split(s, sep) ==
    IF \A i \in 1..Len(s) : s[i] # sep
    THEN <<s>>
    ELSE LET i == CHOOSE j \in 1..Len(s) :
                      s[j] = sep /\ \A k \in 1..(j - 1) : s[k] # sep
         IN  <<SubSeq(s, 1, i - 1)>> \o Split(SubSeq(s, i + 1, Len(s)), sep)

HexDigits ==
    <<"0", "1", "2", "3", "4", "5", "6", "7", "8", "9",
      "a", "b", "c", "d", "e", "f">>

\* The value of a hexadecimal digit.
DigitVal(c) == (CHOOSE i \in 1..Len(HexDigits) : HexDigits[i] = c) - 1

IsHex(c) == \E i \in 1..Len(HexDigits) : HexDigits[i] = c
IsDec(c) == IsHex(c) /\ DigitVal(c) <= 9

\* The number a field of digits denotes in the given base.
RECURSIVE FieldVal(_, _)
FieldVal(f, base) ==
    IF f = <<>> THEN 0
    ELSE FieldVal(SubSeq(f, 1, Len(f) - 1), base) * base + DigitVal(f[Len(f)])

\* A field of a dotted IPv4 literal: one to three decimal digits without a
\* leading zero, at most 255.
IsOctet(f) ==
    /\ Len(f) \in 1..3
    /\ \A i \in 1..Len(f) : IsDec(f[i])
    /\ Len(f) > 1 => f[1] # "0"
    /\ FieldVal(f, 10) <= 255

\* The four bytes of a dotted IPv4 literal, or <<>> if s is not one.
ParseIPv4(s) ==
    LET fs == Split(s, ".")
    IN  IF Len(fs) = 4 /\ \A i \in 1..4 : IsOctet(fs[i])
        THEN [i \in 1..4 |-> FieldVal(fs[i], 10)]
        ELSE <<>>

\* A field of an IPv6 literal: one to four hexadecimal digits.
IsGroup(f) == Len(f) \in 1..4 /\ \A i \in 1..Len(f) : IsHex(f[i])

\* The two bytes of a 16-bit number.
GroupBytes(n) == <<n \div 256, n % 256>>

RECURSIVE Concat(_)
Concat(ss) == IF ss = <<>> THEN <<>> ELSE Head(ss) \o Concat(Tail(ss))

\* The bytes of colon-separated groups, the last of which may be a dotted
\* IPv4 literal if v4last, and whether the groups are well formed.
GroupsBytes(s, v4last) ==
    IF s = <<>> THEN [ok |-> TRUE, bytes |-> <<>>]
    ELSE LET fs == Split(s, ":")
             n == Len(fs)
             dotted == v4last /\ \E i \in 1..Len(fs[n]) : fs[n][i] = "."
             hexes == IF dotted THEN SubSeq(fs, 1, n - 1) ELSE fs
         IN  IF /\ \A i \in 1..Len(hexes) : IsGroup(hexes[i])
                /\ dotted => ParseIPv4(fs[n]) # <<>>
             THEN [ok |-> TRUE,
                   bytes |-> Concat([i \in 1..Len(hexes) |->
                                        GroupBytes(FieldVal(hexes[i], 16))])
                                \o (IF dotted THEN ParseIPv4(fs[n]) ELSE <<>>)]
             ELSE [ok |-> FALSE, bytes |-> <<>>]

\* The places of s where an ellipsis "::" starts.
Ellipses(s) == {i \in 1..(Len(s) - 1) : s[i] = ":" /\ s[i + 1] = ":"}

\* The sixteen bytes of an IPv6 literal, or <<>> if s is not one.
ParseIPv6(s) ==
    IF Ellipses(s) = {}
    THEN LET gs == GroupsBytes(s, TRUE)
         IN  IF gs.ok /\ Len(gs.bytes) = 16 THEN gs.bytes ELSE <<>>
    ELSE IF Cardinality(Ellipses(s)) > 1 THEN <<>>
    ELSE LET i == CHOOSE j \in Ellipses(s) : TRUE
             left == GroupsBytes(SubSeq(s, 1, i - 1), FALSE)
             right == GroupsBytes(SubSeq(s, i + 2, Len(s)), TRUE)
         IN  IF /\ left.ok /\ right.ok
                /\ Len(left.bytes) + Len(right.bytes) <= 14
             THEN left.bytes
                     \o [k \in 1..(16 - Len(left.bytes) - Len(right.bytes)) |-> 0]
                     \o right.bytes
             ELSE <<>>

\* The prefix of an IPv4 address in its sixteen-byte form.
v4InV6Prefix == <<0, 0, 0, 0, 0, 0, 0, 0, 0, 0, 255, 255>>

\* net.ParseIP(s): the sixteen-byte form of an IPv4 or IPv6 literal, or nil
\* (<<>>).
ParseIP(s) ==
    IF \E i \in 1..Len(s) : s[i] = ":"
    THEN ParseIPv6(s)
    ELSE IF ParseIPv4(s) # <<>> THEN v4InV6Prefix \o ParseIPv4(s)
    ELSE <<>>

\* ip.To4(): the four-byte form of an IPv4 address, or nil (<<>>).
To4(ip) ==
    IF Len(ip) = 4 THEN ip
    ELSE IF Len(ip) = 16 /\ SubSeq(ip, 1, 12) = v4InV6Prefix
    THEN SubSeq(ip, 13, 16)
    ELSE <<>>

\* The address kept as parsed, without the conversion to IPv4.
AdvertiseIP_noTo4(ip) == ParseIP(ip)

\* The IP FinalAdvertiseAddr settles on: the parsed one, converted to IPv4
\* if possible.
AdvertiseIP(ip) ==
    IF To4(ParseIP(ip)) # <<>> THEN To4(ParseIP(ip)) ELSE ParseIP(ip)

\* transport.FinalAdvertiseAddr(ip, port).
FinalAdvertiseAddr(ip, port) ==
    /\ advIp' = ip
    /\ advPort' = port
    /\ IF ip = <<>>
       THEN /\ advErr' = "no configured advertise address"
            /\ advRetIP' = <<>>
            /\ advRetPort' = 0
            /\ UNCHANGED localAddr
       ELSE IF port = 0
       THEN /\ advErr' = "missing real listen port"
            /\ advRetIP' = <<>>
            /\ advRetPort' = 0
            /\ UNCHANGED localAddr
       ELSE IF ParseIP(ip) = <<>>
       THEN /\ advErr' = "failed to parse advertise ip"
            /\ advRetIP' = <<>>
            /\ advRetPort' = 0
            /\ UNCHANGED localAddr
       ELSE /\ localAddr' = [IP |-> AdvertiseIP(ip), Port |-> port]
            /\ advRetIP' = AdvertiseIP(ip)
            /\ advRetPort' = port
            /\ advErr' = "nil"
    /\ UNCHANGED notAddr

\* The advertise addresses the memberlist may be configured with: none,
\* 10.0.0.1, 192.168.1.2, 10.0.0 , 10.0.0.256, ::ffff:10.0.0.1,
\* ::ffff:a00:1, ::1, fe80::1, 1::2::3 and a host name.
AdvertiseIPs ==
    { <<>>,
      <<"1", "0", ".", "0", ".", "0", ".", "1">>,
      <<"1", "9", "2", ".", "1", "6", "8", ".", "1", ".", "2">>,
      <<"1", "0", ".", "0", ".", "0">>,
      <<"1", "0", ".", "0", ".", "0", ".", "2", "5", "6">>,
      <<":", ":", "f", "f", "f", "f", ":", "1", "0", ".", "0", ".", "0", ".", "1">>,
      <<":", ":", "f", "f", "f", "f", ":", "a", "0", "0", ":", "1">>,
      <<":", ":", "1">>,
      <<"f", "e", "8", "0", ":", ":", "1">>,
      <<"1", ":", ":", "2", ":", ":", "3">>,
      <<"h", "o", "s", "t">> }

\* The advertise ports it may be configured with.
AdvertisePorts == {-1, 0, 5000, 7946}

AddrNext ==
    \E ip \in AdvertiseIPs, port \in AdvertisePorts : FinalAdvertiseAddr(ip, port)

SpecAddr == Init /\ [][AddrNext]_vars

\* ------------------------------------------------------------------ specification

Next ==
    \/ RunStart
    \/ RunCtxDone
    \/ RunCloseOut
    \/ RunCloseIn
    \/ RunWgWait
    \/ RunCloseExited
    \/ InDequeue
    \/ InSend
    \/ ProtocolStop
    \/ OutDequeue
    \/ \E ok \in BOOLEAN : OutPoolGet(ok)
    \/ \E ok \in BOOLEAN : OutSendPacket(ok)
    \/ WriteTo
    \/ \E hasPeer \in BOOLEAN : SendPacket(hasPeer)
    \/ \E c \in ShutdownCallers : ShutdownCall(c)
    \/ \E c \in ShutdownCallers : ShutdownLock(c)
    \/ \E c \in ShutdownCallers : ShutdownCancel(c)
    \/ \E c \in ShutdownCallers : ShutdownReturn(c)

Spec == Init /\ [][Next]_vars

\* The goroutines of the transport are scheduled fairly, every RPC of the
\* outbound worker comes back, and the protocol takes a packet offered on
\* PacketCh() for as long as it is receiving.  Calls from outside (WriteTo,
\* SendPacket, Shutdown) and the protocol's decision to stop receiving are
\* under no obligation.
Fairness ==
    /\ WF_vars(RunStart)
    /\ WF_vars(RunCtxDone)
    /\ WF_vars(RunCloseOut)
    /\ WF_vars(RunCloseIn)
    /\ WF_vars(RunWgWait)
    /\ WF_vars(RunCloseExited)
    /\ WF_vars(InDequeue)
    /\ WF_vars(InSend)
    /\ WF_vars(OutDequeue)
    /\ WF_vars(\E ok \in BOOLEAN : OutPoolGet(ok))
    /\ WF_vars(\E ok \in BOOLEAN : OutSendPacket(ok))
    /\ \A c \in ShutdownCallers :
          /\ SF_vars(ShutdownLock(c))
          /\ WF_vars(ShutdownCancel(c))
          /\ WF_vars(ShutdownReturn(c))

FairSpec == Init /\ [][Next]_vars /\ Fairness

\* The RPC server of the transport: the two handlers of transportServer
\* with the goroutines they work with (run and its workers, the inbound
\* one taking what SendPacket enqueues), the protocol receiving from the
\* packet and stream channels and closing the adapter it was given, and
\* Shutdown.  Nothing is written with WriteTo, so the outbound worker only
\* waits for its queue to be closed.
ServerNext ==
    \/ RunStart
    \/ RunCtxDone
    \/ RunCloseOut
    \/ RunCloseIn
    \/ RunWgWait
    \/ RunCloseExited
    \/ InDequeue
    \/ InSend
    \/ ProtocolStop
    \/ OutDequeue
    \/ \E hasPeer \in BOOLEAN : SendPacket(hasPeer)
    \/ \E hasPeer \in BOOLEAN : StreamPackets(hasPeer)
    \/ StreamAccept
    \/ StreamPacketsReturn
    \/ \E c \in Closers : CloseBegin(c)
    \/ \E c \in Closers : CloseFinish(c)
    \/ \E c \in ShutdownCallers : ShutdownCall(c)
    \/ \E c \in ShutdownCallers : ShutdownLock(c)
    \/ \E c \in ShutdownCallers : ShutdownCancel(c)
    \/ \E c \in ShutdownCallers : ShutdownReturn(c)

SpecServer == Init /\ [][ServerNext]_vars

\* The streams of the transport: DialTimeout calls and the closing of the
\* adapters they return, next to an inbound stream and the closing of its
\* adapter.
StreamsNext ==
    \/ \E timeout \in 0..MaxTimeout : DialCall(timeout)
    \/ \E ok \in BOOLEAN : DialPoolGet(ok)
    \/ \E ok \in BOOLEAN : DialOpenStream(ok)
    \/ DialReturn
    \/ \E i \in 1..MaxStreams : ClientClose(i)
    \/ \E i \in 1..MaxStreams : ClientCloseFinish(i)
    \/ \E hasPeer \in BOOLEAN : StreamPackets(hasPeer)
    \/ StreamAccept
    \/ StreamPacketsReturn
    \/ \E c \in Closers : CloseBegin(c)
    \/ \E c \in Closers : CloseFinish(c)

SpecStreams == Init /\ [][StreamsNext]_vars

\* ------------------------------------------------------------------ helpers of the properties

ShutdownReturned == \E c \in ShutdownCallers : shutPc[c] = "returned"

StrictlyIncreasing(s) == \A i \in 1..(Len(s) - 1) : s[i] < s[i + 1]

\* The n consecutive packets ending with packet k.
RunEndingAt(k, n) == [i \in 1..n |-> k - n + i]

\* All messages of a stream, one after the other.
RECURSIVE Flatten(_)
Flatten(msgs) == IF msgs = <<>> THEN <<>> ELSE Head(msgs) \o Flatten(Tail(msgs))

\* ------------------------------------------------------------------ properties

\* C1: whenever a Shutdown call has returned, both workers have exited, both
\* queues are closed and exited is closed; from then on no packet is handed
\* to the packet channel and no SendPacket RPC is issued.
ShutdownReturnsAfterWorkersExit ==
    /\ [](ShutdownReturned =>
             /\ inPc = "done"
             /\ outPc = "done"
             /\ inPacketQueue.closed
             /\ outPacketQueue.closed
             /\ exited)
    /\ [][ShutdownReturned => delivered' = delivered /\ sent' = sent]_vars

\* A Shutdown has returned on a transport whose workers had moved packets.
ShutdownReturnedAfterTraffic ==
    /\ ShutdownReturned
    /\ delivered # <<>>
    /\ sent # <<>>

\* C2: every Shutdown call that has started eventually returns.
ShutdownTerminates ==
    \A c \in ShutdownCallers : (shutPc[c] = "lock") ~> (shutPc[c] = "returned")

\* C3: WriteTo can always complete at once (whatever the state of the
\* outbound queue, the outbound worker and the transport), and the error it
\* returns is nil, also after failures of the background send.
WriteToNeverWaits ==
    /\ (outEnqueued < MaxPackets => ENABLED WriteTo)
    /\ writeErr \in {"none", "nil"}

\* WriteTo returned nil and left the outbound queue full after a background
\* send had failed.
WriteToAfterFailedSend ==
    /\ writeErr = "nil"
    /\ Size(outPacketQueue) = packetBufferSize
    /\ packetTxFailedTotal > 0

\* C4: the packets received from the packet channel are a subsequence of the
\* packets SendPacket enqueued (in enqueue order, none twice, none that was
\* not enqueued), and the SendPacket RPCs of the outbound worker are a
\* subsequence of the packets WriteTo enqueued.
DeliveryInEnqueueOrder ==
    /\ StrictlyIncreasing(delivered)
    /\ \A i \in 1..Len(delivered) : delivered[i] \in 1..inEnqueued
    /\ StrictlyIncreasing(sent)
    /\ \A i \in 1..Len(sent) : sent[i] \in 1..outEnqueued

\* Two packets went through each path although the first inbound packet was
\* dropped.
DeliveredAfterDrop ==
    /\ Len(delivered) >= 2
    /\ delivered[1] > 1
    /\ Len(sent) >= 2

\* C5: a queue never holds more than packetBufferSize items; an open queue
\* holds a run of consecutive packets ending with the newest one (an Enqueue
\* at capacity evicted the oldest and admitted the new one); after k
\* enqueues and no dequeue it holds the last min(k, packetBufferSize) ones.
QueueKeepsNewest ==
    /\ Size(inPacketQueue) <= packetBufferSize
    /\ Size(outPacketQueue) <= packetBufferSize
    /\ (~inPacketQueue.closed /\ inPacketQueue.items # <<>>) =>
          inPacketQueue.items = RunEndingAt(inEnqueued, Size(inPacketQueue))
    /\ (~outPacketQueue.closed /\ outPacketQueue.items # <<>>) =>
          outPacketQueue.items = RunEndingAt(outEnqueued, Size(outPacketQueue))
    /\ (~inPacketQueue.closed /\ packetRxTotal = 0) =>
          Size(inPacketQueue) = Min(inEnqueued, packetBufferSize)
    /\ (~outPacketQueue.closed /\ packetTxTotal = 0) =>
          Size(outPacketQueue) = Min(outEnqueued, packetBufferSize)

\* More packets than the capacity were enqueued and none was dequeued.
QueueOverflowed ==
    /\ ~inPacketQueue.closed
    /\ packetRxTotal = 0
    /\ inEnqueued > packetBufferSize
    /\ ~outPacketQueue.closed
    /\ packetTxTotal = 0
    /\ outEnqueued > packetBufferSize

\* C6: on a closed queue no step adds an item (the content only loses its
\* head); a Dequeue waiting on a closed queue can return; a Dequeue on a
\* closed queue returns the head while items remain and the closed error
\* after that; closing again changes nothing.
ClosedQueueDrains ==
    /\ [](/\ inPacketQueue.closed => QueueClose(inPacketQueue) = inPacketQueue
          /\ outPacketQueue.closed => QueueClose(outPacketQueue) = outPacketQueue
          /\ (inPacketQueue.closed /\ inPc = "dequeue") => ENABLED InDequeue
          /\ (outPacketQueue.closed /\ outPc = "dequeue") => ENABLED OutDequeue)
    /\ [][/\ inPacketQueue.closed =>
               \/ inPacketQueue' = inPacketQueue
               \/ /\ inPacketQueue.items # <<>>
                  /\ inPacketQueue' = DequeueRest(inPacketQueue)
          /\ outPacketQueue.closed =>
               \/ outPacketQueue' = outPacketQueue
               \/ /\ outPacketQueue.items # <<>>
                  /\ outPacketQueue' = DequeueRest(outPacketQueue)
          /\ (inPacketQueue.closed /\ inPc = "dequeue" /\ inPc' # "dequeue") =>
               IF inPacketQueue.items # <<>>
               THEN /\ inPkt' = Head(inPacketQueue.items)
                    /\ inPacketQueue'.items = Tail(inPacketQueue.items)
                    /\ inPc' = "send"
               ELSE inPc' = "done"
          /\ (outPacketQueue.closed /\ outPc = "dequeue" /\ outPc' # "dequeue") =>
               IF outPacketQueue.items # <<>>
               THEN /\ outPkt' = Head(outPacketQueue.items)
                    /\ outPacketQueue'.items = Tail(outPacketQueue.items)
                    /\ outPc' = "get"
               ELSE outPc' = "done"]_vars

\* The inbound worker is about to dequeue from a closed queue that still
\* holds a packet, and an Enqueue made after the Close was refused.
DequeueOnClosedQueue ==
    /\ inPacketQueue.closed
    /\ inPacketQueue.items # <<>>
    /\ inPacketQueue.items[Size(inPacketQueue)] < inEnqueued
    /\ inPc = "dequeue"

\* C7: in a DialTimeout call with timeout > 0, Pool.Get and the opening of
\* the stream run under a deadline of exactly timeout, and the call never
\* waits beyond it.
DialTimeoutBoundsDial ==
    (dialPc \in {"get", "open", "done"} /\ dialTimeout > 0) =>
        /\ dialCtx.has
        /\ dialCtx.deadline = dialTimeout
        /\ dialClock <= dialTimeout

\* C8: the bytes successive Read calls return are the bytes the peer wrote,
\* in write order, without gap or repetition; while the adapter is open,
\* what was read, the kept remainder and the messages not yet received make
\* up exactly what was written, the remainder coming before the next message.
StreamReadsInOrder ==
    /\ readOut = Bytes(0, Len(readOut))
    /\ connState = "Open" =>
          readOut \o readBuffer \o Flatten(stream) = Bytes(0, writtenBytes)

\* A Read smaller than its message left a remainder while the next message
\* is waiting.
PartialReadPending ==
    /\ readOut # <<>>
    /\ readBuffer # <<>>
    /\ stream # <<>>

\* C9: the adapter moves Open -> Closing -> Closed and never back; onClose
\* runs exactly once (the gauge is decremented once and waitClosed closed)
\* however many Close calls are made; a Read blocked when the adapter is
\* closed can return; once the adapter is Closed no Read returns data or
\* starts to wait, no Write sends, and both report ConnectionClosed.
AdapterClosesOnce ==
    /\ [](/\ onCloseCalls <= 1
          /\ connState = "Closed" <=> onCloseCalls = 1
          /\ connState = "Closed" => (openStreams = 0 /\ waitClosed)
          /\ connState \in {"Open", "Closing"} => (openStreams = 1 /\ ~waitClosed)
          /\ (readPc = "reading" /\ connState # "Open") => ENABLED ReadWake)
    /\ [][/\ connState' # connState =>
               <<connState, connState'>> \in
                  {<<"none", "Open">>, <<"Open", "Closing">>, <<"Closing", "Closed">>}
          /\ connState = "Closed" =>
               /\ readOut' = readOut
               /\ localWrites' = localWrites
               /\ readPc' = "reading" => readPc = "reading"
               /\ readErr' \in {readErr, "ConnectionClosed"}
               /\ writeResult' \in {writeResult, "ConnectionClosed"}]_vars

\* Both goroutines have called Close more than once, a Read had returned
\* data before, and Read and Write now report ConnectionClosed.
ClosedAfterRepeatedClose ==
    /\ connState = "Closed"
    /\ \A c \in Closers : closeCalls[c] >= 2
    /\ readOut # <<>>
    /\ readErr = "ConnectionClosed"
    /\ writeResult = "ConnectionClosed"

LruEvictionStep(g) ==
    /\ (/\ getPc[g] = "idle" /\ getPc'[g] # "idle"
        /\ EntriesFor(getAddr'[g]) = {}
        /\ poolOpts.CleanupLRU /\ poolOpts.MaxClients > 0
        /\ Cardinality(poolEntries) = poolOpts.MaxClients)
          => \E e \in poolEntries :
                /\ e.addr = Head(poolLru)
                /\ poolEntries' = poolEntries \ {e}
                /\ poolClosed' = [poolClosed EXCEPT ![e.conn] = Append(@, "evict")]
                /\ getPc'[g] = "dial"
    /\ (getPc[g] # "done" /\ getPc'[g] = "done" /\ getResult'[g] # 0)
          => /\ poolLru' # <<>>
             /\ poolLru'[Len(poolLru')] = getAddr'[g]
             /\ [addr |-> getAddr'[g], conn |-> getResult'[g]] \in poolEntries'

FailedGetStep(g) ==
    /\ (/\ getPc[g] = "idle" /\ getPc'[g] # "idle"
        /\ EntriesFor(getAddr'[g]) = {}
        /\ poolOpts.MaxClients > 0 /\ ~poolOpts.CleanupLRU
        /\ Cardinality(poolEntries) >= poolOpts.MaxClients)
          => /\ getPc'[g] = "done"
             /\ getErr'[g] = "MaxConnsExceeded"
             /\ getResult'[g] = 0
             /\ UNCHANGED <<poolEntries, poolLru, poolClosed, poolRefs,
                            poolDialed, poolConns>>
    /\ (getPc[g] = "dial" /\ getErr'[g] = "DialError")
          => /\ getPc'[g] = "done"
             /\ getResult'[g] = 0
             /\ UNCHANGED <<poolEntries, poolLru, poolClosed, poolRefs>>

\* C12: at its maximum (> 0) and without LRU eviction, a Get for an address
\* without an entry fails with MaxConnsExceeded, dials nothing and leaves
\* the entries, their connections and their last use as they were; a failed
\* dial caches nothing; a pool with maximum 0 never fails with
\* MaxConnsExceeded.
PoolMaxConnsExceeded ==
    /\ [](\A g \in Getters :
             getErr[g] = "MaxConnsExceeded" =>
                poolOpts.MaxClients > 0 /\ ~poolOpts.CleanupLRU)
    /\ [][\A g \in Getters : FailedGetStep(g)]_vars

\* A pool of two without eviction holds two entries; one Get has just
\* failed with MaxConnsExceeded, another with DialError.
GetRefusedAtMax ==
    /\ poolOpts.MaxClients = 2
    /\ ~poolOpts.CleanupLRU
    /\ Cardinality(poolEntries) = 2
    /\ \E g, h \in Getters :
          /\ getPc[g] = "done" /\ getErr[g] = "MaxConnsExceeded"
          /\ getPc[h] = "done" /\ getErr[h] = "DialError"
    /\ \A c \in 1..MaxDials : poolClosed[c] = <<>>

\* The callers that hold the connection a Get returned to them.
Holders(h) == {g \in Getters : getPc[g] = "done" /\ getResult[g] = h}

IsV4Mapped(b) ==
    /\ Len(b) = 16
    /\ \A i \in 1..10 : b[i] = 0
    /\ b[11] = 255 /\ b[12] = 255

\* The last call of FinalAdvertiseAddr was for an empty ip, a zero port or
\* an ip that does not parse.
AdvertiseArgsInvalid == advIp = <<>> \/ advPort = 0 \/ ParseIP(advIp) = <<>>

\* C13: FinalAdvertiseAddr fails exactly when the ip is empty, the port is 0
\* or the ip does not parse, and then leaves the recorded local address as
\* it was; otherwise it returns the port unchanged and the address, in its
\* four-byte IPv4 form if it has one (10.0.0.1 for ::ffff:10.0.0.1), and
\* records exactly what it returns as the local address.
AdvertiseAddrResolved ==
    /\ [](advErr # "none" =>
            /\ advErr # "nil" <=> AdvertiseArgsInvalid
            /\ advIp = <<>> => advErr = "no configured advertise address"
            /\ advIp # <<>> /\ advPort = 0 => advErr = "missing real listen port"
            /\ AdvertiseArgsInvalid => advRetIP = <<>> /\ advRetPort = 0
            /\ ~AdvertiseArgsInvalid =>
                  /\ advRetPort = advPort
                  /\ localAddr = [IP |-> advRetIP, Port |-> advRetPort]
                  /\ IF IsV4Mapped(ParseIP(advIp))
                     THEN Len(advRetIP) = 4
                          /\ \A i \in 1..4 : advRetIP[i] = ParseIP(advIp)[12 + i]
                     ELSE advRetIP = ParseIP(advIp) /\ Len(advRetIP) = 16
            /\ (/\ advIp = <<":", ":", "f", "f", "f", "f", ":",
                             "1", "0", ".", "0", ".", "0", ".", "1">>
                /\ advPort # 0) => advRetIP = <<10, 0, 0, 1>>)
    /\ [][advErr' # "nil" => localAddr' = localAddr]_vars

\* FinalAdvertiseAddr("::ffff:10.0.0.1", 5000) has succeeded and recorded
\* 10.0.0.1:5000.
AdvertisedV4Mapped ==
    /\ advIp = <<":", ":", "f", "f", "f", "f", ":",
                 "1", "0", ".", "0", ".", "0", ".", "1">>
    /\ advPort = 5000
    /\ advErr = "nil"
    /\ advRetIP = <<10, 0, 0, 1>>
    /\ localAddr = [IP |-> <<10, 0, 0, 1>>, Port |-> 5000]

\* C14: once a Shutdown has returned, a SendPacket call and a StreamPackets
\* call that arrive end with an error and hand nothing over: no packet is
\* enqueued or delivered, no adapter is created, counted or offered on the
\* stream channel.
TransportClosedRejects ==
    [][ShutdownReturned =>
          /\ (\E hasPeer \in BOOLEAN : SendPacket(hasPeer))
                => /\ rpcStatus' # "OK"
                   /\ inPacketQueue' = inPacketQueue
          /\ (\E hasPeer \in BOOLEAN : StreamPackets(hasPeer))
                => /\ spStatus' \notin {"none", "OK"}
                   /\ spPc' # "send"
                   /\ openStreams' = openStreams
          /\ delivered' = delivered]_vars

\* C15: for every packet the outbound worker dequeues there is at most one
\* Pool.Get call and at most one SendPacket call, the packet-tx counter goes
\* up by one when it is dequeued and at no other time, the failure counter
\* goes up by one when Pool.Get or SendPacket fails for it and at no other
\* time, and after writeToSync, failed or not, the worker is back at its
\* Dequeue.
OutboundOncePerPacket ==
    /\ [](/\ outCall.gets <= 1
          /\ outCall.rpcs <= outCall.gets
          /\ outCall.err = "Pool.Get" => outCall.rpcs = 0
          /\ StrictlyIncreasing(sent))
    /\ [][/\ packetTxTotal' # packetTxTotal =>
                /\ packetTxTotal' = packetTxTotal + 1
                /\ outPc = "dequeue" /\ outPc' = "get"
                /\ outPkt' > outPkt
                /\ outCall' = NoCalls
                /\ packetTxFailedTotal' = packetTxFailedTotal
          /\ packetTxFailedTotal' # packetTxFailedTotal =>
                /\ packetTxFailedTotal' = packetTxFailedTotal + 1
                /\ outCall.err = "nil" /\ outCall'.err # "nil"
                /\ outPkt' = outPkt
          /\ (outCall.err = "nil" /\ outCall'.err # "nil") =>
                packetTxFailedTotal' = packetTxFailedTotal + 1
          /\ (outPc \in {"get", "rpc"} /\ outPc' \notin {"get", "rpc"}) =>
                outPc' = "dequeue"]_vars

\* The outbound worker has sent its third packet, after a packet for which
\* Pool.Get failed and one for which SendPacket failed.
OutboundContinuedAfterFailures ==
    /\ packetTxTotal = 3
    /\ packetTxFailedTotal = 2
    /\ Len(sent) = 2
    /\ outCall = [gets |-> 1, rpcs |-> 1, err |-> "nil"]
    /\ outPc = "dequeue"

\* C16: SendPacket with a peer can complete in every state (the protocol
\* receiving or not, the inbound queue full or not, earlier packets
\* delivered or not); it does one Enqueue on the inbound queue, returns
\* success and delivers nothing itself; a packet reaches the packet channel
\* only by the inbound worker's send.
SendPacketNeverWaits ==
    /\ [](inEnqueued < MaxPackets => ENABLED SendPacket(TRUE))
    /\ [][/\ inEnqueued' # inEnqueued =>
                /\ inEnqueued' = inEnqueued + 1
                /\ inPacketQueue' = Enqueue(inPacketQueue, inEnqueued')
                /\ rpcStatus' = "OK"
                /\ delivered' = delivered
                /\ inPc' = inPc /\ inPkt' = inPkt
          /\ delivered' # delivered =>
                /\ inPc = "send" /\ inPc' = "dequeue"
                /\ delivered' = Append(delivered, inPkt)
                /\ inEnqueued' = inEnqueued
                /\ rpcStatus' = rpcStatus]_vars

\* SendPacket has returned success with the inbound queue full, nothing
\* delivered yet, the inbound worker blocked in its send and the protocol
\* no longer receiving.
SendPacketWhileProtocolStopped ==
    /\ rpcStatus = "OK"
    /\ ~receiving
    /\ inPc = "send"
    /\ Size(inPacketQueue) = inPacketQueue.limit
    /\ delivered = <<>>
    /\ inEnqueued = Size(inPacketQueue) + 1

\* C17: a StreamPackets call with a peer creates one adapter and offers it
\* on the stream channel, where it stays until the protocol receives it;
\* the handler has not returned unless the adapter's Close has run (onClose
\* once, the adapter Closed), and once the adapter is Closed the handler
\* returns.
StreamHandlerTiedToAdapter ==
    /\ [](/\ spPc \in {"send", "waitClosed"} =>
                connState \in {"Open", "Closing", "Closed"} /\ onCloseCalls <= 1
          /\ spPc = "send" => ~accepted /\ connState = "Open"
          /\ spPc = "returned" =>
                accepted /\ connState = "Closed" /\ onCloseCalls = 1)
    /\ [][/\ spPc = "send" /\ spPc' # "send" => ~accepted /\ accepted'
          /\ spPc' = "returned" /\ spPc # "returned" => spStatus' = "OK"]_vars
    /\ (connState = "Closed" ~> spPc = "returned")

\* The handler has returned after the protocol read from the adapter it had
\* been given and closed it.
StreamHandlerReturned ==
    /\ spPc = "returned"
    /\ spStatus = "OK"
    /\ connState = "Closed"
    /\ readOut # <<>>

\* C18: a SendPacket or a StreamPackets call without a peer fails with
\* Internal and changes nothing else: nothing is enqueued, no adapter is
\* created or offered on the stream channel, the gauge keeps its value.
MissingPeerRejected ==
    [][/\ (rpcStatus' = "Internal" /\ rpcStatus # "Internal") =>
             UNCHANGED <<inPacketQueue, outPacketQueue, ctxDone, exited,
                         closedMut, wg, runPc, inPc, inPkt, outPc, outPkt,
                         shutPc, receiving, inEnqueued, outEnqueued, delivered,
                         sent, writeErr, packetRxTotal, packetTxTotal,
                         packetTxFailedTotal, outCall, notTransport>>
       /\ (spStatus' = "Internal" /\ spStatus # "Internal") =>
             UNCHANGED <<spPc, accepted, waitClosed, connState, onCloseCalls,
                         stream, writtenBytes, readBuffer, readPc, readN,
                         readOut, readErr, localWrites, writeResult, closePc,
                         closeCalls, openStreams, notConn>>
       /\ SendPacket(FALSE) => rpcStatus' = "Internal"
       /\ StreamPackets(FALSE) => spStatus' = "Internal"]_vars

\* A SendPacket and a StreamPackets call without a peer have failed, after
\* a packet had been accepted: that packet is all the inbound side holds,
\* and there is no adapter.
PeerlessCallsFailed ==
    /\ rpcStatus = "Internal"
    /\ spStatus = "Internal"
    /\ inEnqueued = 1
    /\ Size(inPacketQueue) + Len(delivered) + (IF inPc = "send" THEN 1 ELSE 0) = 1
    /\ connState = "none"
    /\ spPc = "idle"
    /\ openStreams = 0

\* The adapters that have been created and not yet closed: those returned
\* by DialTimeout and the one of the inbound stream.
LiveAdapters ==
    Cardinality({i \in 1..Len(dialConns) : dialConns[i] \in {"Open", "Closing"}})
       + (IF connState \in {"Open", "Closing"} THEN 1 ELSE 0)

\* C20: the open-stream gauge is the number of adapters created, by a
\* successful DialTimeout or by a StreamPackets call with a peer, and not
\* yet closed; it is never negative and is 0 when every adapter is closed;
\* a DialTimeout that fails returns no adapter and leaves it alone; it goes
\* up by one exactly when an adapter is created and down by one exactly
\* when an adapter becomes Closed, whatever Close calls are made.
GaugeCountsLiveAdapters ==
    /\ [](/\ openStreams = LiveAdapters
          /\ openStreams >= 0
          /\ onCloseCalls <= 1)
    /\ [][/\ (dialPc # "done" /\ dialPc' = "done" /\ dialResult' = "err") =>
                openStreams' = openStreams /\ dialConns' = dialConns
          /\ (dialPc # "done" /\ dialPc' = "done" /\ dialResult' = "conn") =>
                /\ openStreams' = openStreams + 1
                /\ dialConns' = Append(dialConns, "Open")
          /\ openStreams' > openStreams =>
                /\ openStreams' = openStreams + 1
                /\ \/ Len(dialConns') = Len(dialConns) + 1
                   \/ connState = "none" /\ connState' = "Open"
          /\ openStreams' < openStreams =>
                /\ openStreams' = openStreams - 1
                /\ \/ \E i \in 1..Len(dialConns) :
                         dialConns[i] = "Closing" /\ dialConns'[i] = "Closed"
                   \/ connState = "Closing" /\ connState' = "Closed"
          /\ \A i \in 1..Len(dialConns) :
                dialConns'[i] # dialConns[i] =>
                   <<dialConns[i], dialConns'[i]>> \in
                      {<<"Open", "Closing">>, <<"Closing", "Closed">>}]_vars

\* Two adapters from DialTimeout and one from StreamPackets have all been
\* closed, the inbound one after Close calls by both goroutines, and the
\* gauge is back at 0.
AllAdaptersClosed ==
    /\ Len(dialConns) = 2
    /\ \A i \in 1..Len(dialConns) : dialConns[i] = "Closed"
    /\ connState = "Closed"
    /\ \A c \in Closers : closeCalls[c] >= 1
    /\ openStreams = 0

====
